---- MODULE Spec2Model ----
(***************************************************************************)
(* Token codec (server/src/utils/auth.js) and access gate                  *)
(* (server/src/middleware/auth.js) of the MERN content API, with the user  *)
(* management routes that change what the gate reads from storage, the     *)
(* auth routes, the posts' save pipeline, counters and publish state      *)
(* (server/src/models/Post.js) and the posts routes that update and        *)
(* delete.                                                                 *)
(*                                                                         *)
(* Time is counted in ticks of the clock the JWT library reads             *)
(* (Math.floor(Date.now() / 1000)), one tick being the default token       *)
(* lifetime of seven days.  JavaScript objects are                         *)
(* functions from field names to values, so that an absent field is a      *)
(* name missing from the DOMAIN.  A string that is split or parsed is a    *)
(* sequence of atoms: a space, a word, or the compact serialisation of a   *)
(* signed token.                                                           *)
(***************************************************************************)
EXTENDS Integers, Sequences, FiniteSets, TLC

VARIABLES
    now,             \* the wall clock, in ticks
    JWT_SECRET,      \* utils/auth.js:4, read from the environment at load
    JWT_EXPIRES_IN,  \* utils/auth.js:5, read from the environment at load
    users,           \* the users collection: id -> stored document
    issued,          \* id -> the token string register / login last gave that user
    stale,           \* ids deactivated since that token string was issued
    req,             \* the request in flight through the middleware chain
    pc,              \* where that request is: idle, lookup, handler, done
    res,             \* the response sent for it, if any
    codec,           \* the last TokenCodec call: operation, input, result
    ended,           \* ids whose token string was since sent to logout or refresh
    posts,           \* the posts collection: id -> stored document
    saves,           \* id -> the save() of that document that is under way
    calls            \* call -> the operation on a post that is under way

vars == <<now, JWT_SECRET, JWT_EXPIRES_IN, users, issued, stale, req, pc, res, codec,
          ended, posts, saves, calls>>

----------------------------------------------------------------------------
(* Bounds of the model *)

\* the counters of a post are followed up to this count
MaxCount == 2

MaxTime == 2         \* the clock runs 0 .. MaxTime

(* Program constants *)

DefaultLifetime == 1 \* the default '7d' of JWT_EXPIRES_IN, in ticks
DefaultSecret == "your-secret-key"
Issuer == "mern-testing-app"
Audience == "mern-testing-users"
Roles == {"user", "moderator", "admin"}
Ids == {"u1", "u2"}

----------------------------------------------------------------------------
(* JavaScript objects as functions *)

Has(o, k) == k \in DOMAIN o

\* { ...a, ...b }: the fields of b override those of a
Spread(a, b) ==
    [k \in DOMAIN a \cup DOMAIN b |-> IF k \in DOMAIN b THEN b[k] ELSE a[k]]

\* const { k1, k2, ...rest } = o
Without(o, keys) == [k \in DOMAIN o \ keys |-> o[k]]

----------------------------------------------------------------------------
(* Strings that the code splits or parses *)

Sp == [a |-> "sp", s |-> " "]
W(s) == [a |-> "word", s |-> s]
T(t) == [a |-> "jws", s |-> "", t |-> t]

\* the compact serialisation header.payload.signature of a signed token
Compact(t) == <<T(t)>>

\* String.prototype.split(' '): the segments between the spaces, empty ones kept
RECURSIVE SplitFrom(_, _, _)
SplitFrom(str, cur, acc) ==
    IF str = <<>> THEN Append(acc, cur)
    ELSE IF Head(str).a = "sp" THEN SplitFrom(Tail(str), <<>>, Append(acc, cur))
    ELSE SplitFrom(Tail(str), Append(cur, Head(str)), acc)

Split(str) == SplitFrom(str, <<>>, <<>>)

\* a header value: absent (null / undefined) or a string
NoHeader == [present |-> FALSE, str |-> <<>>]
HeaderOf(str) == [present |-> TRUE, str |-> str]
Bearer(str) == HeaderOf(<<W("Bearer"), Sp>> \o str)

----------------------------------------------------------------------------
(* The jsonwebtoken library as utils/auth.js calls it.  An HMAC is a pair  *)
(* of what was signed and the key: equal only for equal payload and key.   *)

Hmac(payload, key) == [over |-> payload, key |-> key]

Throw(msg) == [ok |-> FALSE, error |-> msg]
Return(v) == [ok |-> TRUE, value |-> v]

\* jwt.sign(payload, secret, { expiresIn, issuer, audience }) at time t
JwtSign(payload, secret, expiresIn, iss, aud, t) ==
    IF Has(payload, "exp") \/ Has(payload, "iss") \/ Has(payload, "aud")
    THEN Throw("Bad option: the payload already has the property")
    ELSE LET iat == IF Has(payload, "iat") THEN payload["iat"] ELSE t
             claims == Spread(payload,
                           [iat |-> iat, exp |-> iat + expiresIn,
                            iss |-> iss, aud |-> aud])
         IN Return(Compact([payload |-> claims, mac |-> Hmac(claims, secret)]))

\* a token string is a JWS when it is one compact serialisation
IsJws(str) == Len(str) = 1 /\ str[1].a = "jws"

\* jwt.decode(token): the payload, unverified; null for what is no JWS
Null == [null |-> TRUE]
IsNull(v) == Has(v, "null")
JwtDecode(str) == IF IsJws(str) THEN str[1].t.payload ELSE Null

\* a compact serialisation whose header is JSON with typ JWT and whose
\* payload segment is not JSON: the library's decode runs JSON.parse on that
\* payload outside any try, so the call throws instead of returning null
Unparsable == <<[a |-> "badjws", s |-> "eyJhbGciOiJIUzI1NiIsInR5cCI6IkpXVCJ9.bm90LWpzb24.c2ln"]>>
JwtDecodeThrows(str) == Len(str) = 1 /\ str[1].a = "badjws"

\* the call jwt.decode(token) with its way of ending: a value or a throw
JwtDecodeCall(str) ==
    IF JwtDecodeThrows(str) THEN Throw("Unexpected token in JSON")
    ELSE Return(JwtDecode(str))

\* jwt.verify that takes the lifetime from the configuration, not from exp
JwtVerify_ConfiguredLifetime(str, secret, t) ==
    IF ~IsJws(str) THEN Throw("jwt malformed")
    ELSE LET tok == str[1].t IN
         IF tok.mac # Hmac(tok.payload, secret) THEN Throw("invalid signature")
         ELSE IF Has(tok.payload, "exp") /\ t >= tok.payload["iat"] + JWT_EXPIRES_IN
              THEN Throw("jwt expired")
         ELSE Return(tok.payload)

\* jwt.verify(token, secret), no options: structure, signature, then expiry
\* (expired when clockTimestamp >= exp); issuer and audience are checked
\* only when the caller passes them as options
JwtVerify(str, secret, t) ==
    IF ~IsJws(str) THEN Throw("jwt malformed")
    ELSE LET tok == str[1].t IN
         IF tok.mac # Hmac(tok.payload, secret) THEN Throw("invalid signature")
         ELSE IF Has(tok.payload, "exp") /\ t >= tok.payload["exp"]
              THEN Throw("jwt expired")
         ELSE Return(tok.payload)

----------------------------------------------------------------------------
(* TokenCodec: utils/auth.js *)

\* PayloadOf with the username left out of the payload
PayloadOf_NoUsername(user) ==
    LET take == {k \in {"id", "email", "role"} :
                    Has(user, IF k = "id" THEN "_id" ELSE k)}
    IN [k \in take |-> IF k = "id" THEN user["_id"] ELSE user[k]]

\* the fields of user that are defined; JSON drops the undefined ones
PayloadOf(user) ==
    LET take == {k \in {"id", "email", "username", "role"} :
                    Has(user, IF k = "id" THEN "_id" ELSE k)}
    IN [k \in take |-> IF k = "id" THEN user["_id"] ELSE user[k]]

generateToken(user, secret, expiresIn, t) ==
    LET r == JwtSign(PayloadOf(user), secret, expiresIn, Issuer, Audience, t)
    IN IF r.ok THEN r ELSE Throw("Token generation failed")

\* verifyToken without its catch: the library's own error reaches the caller
verifyToken_Rethrow(str, secret, t) == JwtVerify(str, secret, t)

verifyToken(str, secret, t) ==
    LET r == JwtVerify(str, secret, t)
    IN IF r.ok THEN r ELSE Throw("Invalid token")

decodeToken(str) ==
    LET r == JwtDecodeCall(str)
    IN IF r.ok THEN r ELSE Throw("Token decoding failed")

\* extractTokenFromHeader that accepts any scheme word
extractTokenFromHeader_AnyScheme(authHeader) ==
    IF ~authHeader.present \/ authHeader.str = <<>>
    THEN Throw("Authorization header missing")
    ELSE LET parts == Split(authHeader.str) IN
         IF Len(parts) # 2
         THEN Throw("Invalid authorization header format")
         ELSE Return(parts[2])

extractTokenFromHeader(authHeader) ==
    IF ~authHeader.present \/ authHeader.str = <<>>
    THEN Throw("Authorization header missing")
    ELSE LET parts == Split(authHeader.str) IN
         IF Len(parts) # 2 \/ parts[1] # <<W("Bearer")>>
         THEN Throw("Invalid authorization header format")
         ELSE Return(parts[2])

\* a claim that is absent or falsy: !decoded.exp
NoExp(decoded) == ~Has(decoded, "exp") \/ decoded["exp"] = 0

\* isTokenExpired that answers false where it cannot tell
isTokenExpired_FailOpen(str, t) ==
    LET r == JwtDecodeCall(str) IN
    IF ~r.ok THEN Return(FALSE)
    ELSE IF IsNull(r.value) \/ NoExp(r.value) THEN Return(FALSE)
    ELSE Return(r.value["exp"] < t)

\* isTokenExpired(token) at clock reading t
isTokenExpired(str, t) ==
    LET r == JwtDecodeCall(str) IN
    IF ~r.ok THEN Return(TRUE)
    ELSE IF IsNull(r.value) \/ NoExp(r.value) THEN Return(TRUE)
    ELSE Return(r.value["exp"] < t)

\* refreshToken that verifies the old token instead of decoding it
refreshToken_Verified(str, secret, expiresIn, t) ==
    LET d == JwtVerify(str, secret, t) IN
    IF ~d.ok THEN Throw("Token refresh failed")
    ELSE LET payload == Without(d.value, {"iat", "exp", "aud", "iss"})
             r == generateToken(payload, secret, expiresIn, t)
         IN IF r.ok THEN r ELSE Throw("Token refresh failed")

\* refreshToken(token) at clock reading t: the decoded claims without iat,
\* exp, aud and iss are handed to generateToken as its user
refreshToken(str, secret, expiresIn, t) ==
    LET d == JwtDecodeCall(str) IN
    IF ~d.ok \/ IsNull(d.value) THEN Throw("Token refresh failed")
    ELSE LET payload == Without(d.value, {"iat", "exp", "aud", "iss"})
             r == generateToken(payload, secret, expiresIn, t)
         IN IF r.ok THEN r ELSE Throw("Token refresh failed")

----------------------------------------------------------------------------
(* Stored users.  The schema of models/User.js gives a new user the role   *)
(* user and isActive true; email and username are fixed per id here.       *)

EmailOf(id) == IF id = "u1" THEN "u1@example.com" ELSE "u2@example.com"
NameOf(id) == IF id = "u1" THEN "userone" ELSE "usertwo"

UserDoc(id, role, active) ==
    [_id |-> id, email |-> EmailOf(id), username |-> NameOf(id),
     role |-> role, isActive |-> active]

\* users[id] is Null when no document with that id is stored, and Deleted
\* when one was: an ObjectId is never given to a second document
Deleted == [null |-> TRUE, deleted |-> TRUE]
SeededUsers == [id \in Ids |-> IF id = "u1" THEN UserDoc(id, "admin", TRUE) ELSE Null]

----------------------------------------------------------------------------
(* JavaScript values that a route parameter or body field can hold *)

Undefined == [t |-> "undefined", v |-> ""]
Str(s) == [t |-> "string", v |-> s]
Truthy(x) == x.t = "string" /\ x.v # ""

\* o[k]
Get(o, k) == IF Has(o, k) THEN o[k] ELSE Undefined

\* a || b
OrElse(a, b) == IF Truthy(a) THEN a ELSE b

EmptyObj == [k \in {} |-> Undefined]

----------------------------------------------------------------------------
(* AccessGate: middleware/auth.js.  A middleware either sends a response   *)
(* or calls next(); next() runs the rest of the chain synchronously.       *)

NoRes == [status |-> 0, error |-> "", by |-> "none", count |-> 0]
Send(rs, by, status, error) ==
    [status |-> status, error |-> error, by |-> by, count |-> rs.count + 1]

\* the roles argument of authorize: one role or an array of roles
OneRole(r) == [array |-> FALSE, items |-> <<r>>]
RoleList(rs) == [array |-> TRUE, items |-> rs]

NoGuard == [kind |-> "none", roles |-> RoleList(<<>>), field |-> ""]
Authorize(roles) == [kind |-> "authorize", roles |-> roles, field |-> ""]
RequireAdmin == Authorize(OneRole("admin"))
RequireModerator == Authorize(RoleList(<<"admin", "moderator">>))
RequireSelfOrAdmin(field) ==
    [kind |-> "selfOrAdmin", roles |-> RoleList(<<>>), field |-> field]

\* the request: what the client sent (header, params, body), what
\* the chain attached (user, token), the locals of the first middleware
\* (token and decoded), whether its findById rejected, whether the token
\* it came with was issued before its user was deactivated, how often that
\* middleware called next() and how often the route handler ran
NoLocals == [token |-> <<>>, decoded |-> Null]
NoReq == [mw |-> "none", guard |-> NoGuard, header |-> NoHeader,
          params |-> EmptyObj, body |-> EmptyObj,
          user |-> Null, token |-> <<>>, locals |-> NoLocals, dbError |-> FALSE,
          staleToken |-> FALSE,
          nexts |-> 0, handler |-> 0]

Includes(seq, x) == \E i \in 1 .. Len(seq) : seq[i] = x

\* what one middleware does: call next, or send (status, error)
CallNext == [next |-> TRUE, status |-> 0, error |-> ""]
Reply(status, error) == [next |-> FALSE, status |-> status, error |-> error]

\* authorize without the role check
authorize_NoRoleCheck(roles, rq) ==
    IF IsNull(rq.user) THEN Reply(401, "Authentication required") ELSE CallNext

\* authorize(roles)(req, res, next)
authorize(roles, rq) ==
    IF IsNull(rq.user) THEN Reply(401, "Authentication required")
    ELSE LET requiredRoles == IF roles.array THEN roles.items ELSE <<roles.items[1]>>
         IN IF ~Includes(requiredRoles, rq.user["role"])
            THEN Reply(403, "Insufficient permissions")
            ELSE CallNext

\* requireSelfOrAdmin reading the body before the route parameters
requireSelfOrAdmin_BodyFirst(field, rq) ==
    IF IsNull(rq.user) THEN Reply(401, "Authentication required")
    ELSE LET resourceUserId == OrElse(Get(rq.body, field), Get(rq.params, field))
         IN IF rq.user["role"] = "admin" THEN CallNext
            ELSE IF Str(rq.user["_id"]) = resourceUserId THEN CallNext
            ELSE Reply(403, "Access denied")

\* requireSelfOrAdmin(resourceUserIdField)(req, res, next)
requireSelfOrAdmin(field, rq) ==
    IF IsNull(rq.user) THEN Reply(401, "Authentication required")
    ELSE LET resourceUserId == OrElse(Get(rq.params, field), Get(rq.body, field))
         IN IF rq.user["role"] = "admin" THEN CallNext
            ELSE IF Str(rq.user["_id"]) = resourceUserId THEN CallNext
            ELSE Reply(403, "Access denied")

\* the middleware that follows authenticate / optionalAuth on the route
RunGuard(rq) ==
    CASE rq.guard.kind = "authorize" -> authorize(rq.guard.roles, rq)
      [] rq.guard.kind = "selfOrAdmin" -> requireSelfOrAdmin(rq.guard.field, rq)
      [] OTHER -> CallNext

\* the guard runs, then the route handler
FromGuard(rq, rs) ==
    LET g == RunGuard(rq)
    IN IF g.next THEN [req |-> [rq EXCEPT !.handler = @ + 1], res |-> rs]
       ELSE [req |-> rq, res |-> Send(rs, rq.guard.kind, g.status, g.error)]

\* next() called by the first middleware
AfterNext(rq, rs) == FromGuard([rq EXCEPT !.nexts = @ + 1], rs)

Rejected(rq, rs, by, status, error) ==
    [req |-> rq, res |-> Send(rs, by, status, error)]

\* User.findById(id).select('-password') on the collection us
FindById(us, decoded) ==
    IF Has(decoded, "id") /\ decoded["id"] \in DOMAIN us THEN us[decoded["id"]]
    ELSE Null

\* ExtractAndVerify with jwt.decode in the place of verifyToken
ExtractAndVerify_DecodeOnly(header, secret, t) ==
    LET e == extractTokenFromHeader(header) IN
    IF ~e.ok THEN e
    ELSE IF IsNull(JwtDecode(e.value)) THEN Throw("Invalid token")
    ELSE Return([token |-> e.value, decoded |-> JwtDecode(e.value)])

\* authenticate, lines 12-16: header -> token -> claims, synchronously
ExtractAndVerify(header, secret, t) ==
    LET e == extractTokenFromHeader(header) IN
    IF ~e.ok THEN e
    ELSE LET v == verifyToken(e.value, secret, t) IN
         IF ~v.ok THEN v ELSE Return([token |-> e.value, decoded |-> v.value])

\* authenticateResume without the isActive check
authenticateResume_SkipActive(rq0, rs, found, dbError) ==
    LET rq == [rq0 EXCEPT !.dbError = dbError] IN
    IF dbError THEN Rejected(rq, rs, "authenticate", 401, "Authentication failed")
    ELSE IF IsNull(found)
         THEN Rejected(rq, rs, "authenticate", 401, "User not found")
    ELSE AfterNext([rq EXCEPT !.user = found, !.token = rq.locals.token], rs)

\* authenticateResume that goes on, as optionalAuth does, when findById rejects
authenticateResume_DbErrorNext(rq0, rs, found, dbError) ==
    LET rq == [rq0 EXCEPT !.dbError = dbError] IN
    IF dbError THEN AfterNext(rq, rs)
    ELSE IF IsNull(found)
         THEN Rejected(rq, rs, "authenticate", 401, "User not found")
    ELSE IF ~found["isActive"]
         THEN Rejected(rq, rs, "authenticate", 401, "User account is deactivated")
    ELSE AfterNext([rq EXCEPT !.user = found, !.token = rq.locals.token], rs)

\* authenticateResume with a list of ended sessions: a token string that was
\* sent to logout or refresh is turned away
authenticateResume_Revoking(rq0, rs, found, dbError) ==
    LET rq == [rq0 EXCEPT !.dbError = dbError] IN
    IF dbError THEN Rejected(rq, rs, "authenticate", 401, "Authentication failed")
    ELSE IF \E id \in ended : rq.locals.token = issued[id]
         THEN Rejected(rq, rs, "authenticate", 401, "Authentication failed")
    ELSE IF IsNull(found)
         THEN Rejected(rq, rs, "authenticate", 401, "User not found")
    ELSE IF ~found["isActive"]
         THEN Rejected(rq, rs, "authenticate", 401, "User account is deactivated")
    ELSE AfterNext([rq EXCEPT !.user = found, !.token = rq.locals.token], rs)

\* authenticate, lines 19-38, once findById has settled: found is the
\* document or null, dbError that the lookup rejected
authenticateResume(rq0, rs, found, dbError) ==
    LET rq == [rq0 EXCEPT !.dbError = dbError] IN
    IF dbError THEN Rejected(rq, rs, "authenticate", 401, "Authentication failed")
    ELSE IF IsNull(found)
         THEN Rejected(rq, rs, "authenticate", 401, "User not found")
    ELSE IF ~found["isActive"]
         THEN Rejected(rq, rs, "authenticate", 401, "User account is deactivated")
    ELSE AfterNext([rq EXCEPT !.user = found, !.token = rq.locals.token], rs)

\* optionalAuthResume that attaches whatever user it found
optionalAuthResume_AttachInactive(rq0, rs, found, dbError) ==
    LET rq == [rq0 EXCEPT !.dbError = dbError] IN
    IF dbError THEN AfterNext(rq, rs)
    ELSE IF ~IsNull(found)
         THEN AfterNext([rq EXCEPT !.user = found, !.token = rq.locals.token], rs)
    ELSE AfterNext(rq, rs)

\* optionalAuth, lines 55-67, once findById has settled
optionalAuthResume(rq0, rs, found, dbError) ==
    LET rq == [rq0 EXCEPT !.dbError = dbError] IN
    IF dbError THEN AfterNext(rq, rs)
    ELSE IF ~IsNull(found) /\ found["isActive"]
         THEN AfterNext([rq EXCEPT !.user = found, !.token = rq.locals.token], rs)
    ELSE AfterNext(rq, rs)

----------------------------------------------------------------------------
(* Initial state *)

----------------------------------------------------------------------------
(* ContentPipeline: models/Post.js.  A title is a sequence of words,       *)
(* spaces and punctuation; a slug is the hyphenated base that slugify      *)
(* makes of it and the Date.now() suffixes appended to that base.          *)

Docs == {"p1", "p2", "p3"}

Pn(s) == [a |-> "punct", s |-> s]
Hy == [a |-> "hyphen", s |-> "-"]

\* toLowerCase() on the words of the titles
Lower(w) ==
    CASE w = "Test" -> "test"
      [] w = "Post" -> "post"
      [] w = "Other" -> "other"
      [] OTHER -> w

\* slugify(title, { lower: true, strict: true, remove }): punctuation goes,
\* the words are lower-cased and joined by one hyphen
RECURSIVE SlugifyFrom(_, _)
SlugifyFrom(title, acc) ==
    IF title = <<>> THEN acc
    ELSE IF Head(title).a = "word"
         THEN SlugifyFrom(Tail(title),
                  (IF acc = <<>> THEN acc ELSE Append(acc, Hy))
                      \o <<W(Lower(Head(title).s))>>)
    ELSE SlugifyFrom(Tail(title), acc)

Slugify(title) == [base |-> SlugifyFrom(title, <<>>), suffix |-> <<>>]
NoSlug == [base |-> <<>>, suffix |-> <<>>]

\* `${this.slug}-${Date.now()}`
Suffixed(slug, t) == [slug EXCEPT !.suffix = Append(@, t)]

\* a save(): not started, its findOne sent (finding), findOne answered
\* (found), the second hook done and the insert sent (inserting), finished
NoSave == [pc |-> "none", doc |-> Null, existing |-> FALSE, error |-> 0]

\* Post.findOne({ slug, _id: { $ne: id } }) on the collection ps
FindOtherWithSlug(ps, slug, id) ==
    \E e \in DOMAIN ps : e # id /\ ~IsNull(ps[e]) /\ ps[e]["slug"] = slug

\* first pre('save') hook, lines 119-147, the slug part
DeriveSlug(doc) ==
    IF doc["slug"] = NoSlug /\ doc["title"] # <<>>
    THEN Spread(doc, [slug |-> Slugify(doc["title"])])
    ELSE doc

\* second pre('save') hook after its await, lines 157-161
EnsureUnique(doc, existing, t) ==
    IF existing THEN Spread(doc, [slug |-> Suffixed(doc["slug"], t)]) ELSE doc

\* the index on slug, line 110, and the slug path, lines 18-22: neither is
\* declared unique
SlugIndexUnique == FALSE

\* insertOne: refused with E11000 when a unique index has the key already
InsertRefused(ps, doc) ==
    SlugIndexUnique /\ FindOtherWithSlug(ps, doc["slug"], doc["_id"])

\* String.length of the words and the punctuation the titles are made of
Chars(tok) ==
    CASE tok.s = "Test" -> 4
      [] tok.s = "test" -> 4
      [] tok.s = "Post" -> 4
      [] tok.s = "post" -> 4
      [] tok.s = "Other" -> 5
      [] tok.s = "Hi" -> 2
      [] tok.s = "!!!!!" -> 5
      [] OTHER -> 1

RECURSIVE Length(_)
Length(str) == IF str = <<>> THEN 0 ELSE Chars(Head(str)) + Length(Tail(str))

\* the trim setter of title, line 8
RECURSIVE TrimStart(_)
TrimStart(str) ==
    IF str # <<>> /\ Head(str) = Sp THEN TrimStart(Tail(str)) ELSE str

RECURSIVE TrimEnd(_)
TrimEnd(str) ==
    IF str # <<>> /\ str[Len(str)] = Sp
    THEN TrimEnd(SubSeq(str, 1, Len(str) - 1))
    ELSE str

Trim(str) == TrimEnd(TrimStart(str))

\* a content is a sequence of whitespace runs (Sp) and of runs of n words
\* with single spaces between them
Wn(n) == [a |-> "words", n |-> n]

\* a Date
DateOf(t) == [date |-> t]

\* the ObjectId of a user
Oid(id) == [oid |-> id]

Statuses == {"draft", "published", "archived"}
MinTitle == 5
MaxTitle == 200
WordsPerMinute == 200

\* new Post(input): the setters and the defaults of the schema, lines 4-88;
\* a slug that is not given and the empty slug are both NoSlug (both falsy).
\* excerpt, category, tags and the seo fields are not carried.
NewPost(id, input) ==
    Spread([_id |-> id, title |-> <<>>, content |-> <<>>, slug |-> NoSlug,
            author |-> Null, status |-> "draft", isPublished |-> FALSE,
            publishedAt |-> Null, viewCount |-> 0, likeCount |-> 0,
            commentCount |-> 0, readingTime |-> 0],
           [k \in DOMAIN input |->
               IF k = "title" THEN Trim(input[k]) ELSE input[k]])

\* the validators of save(), which run before the pre('save') hooks: title
\* and author required, title of 5 to 200 characters, content required
Validate(doc) ==
    /\ doc["title"] # <<>>
    /\ Length(doc["title"]) >= MinTitle /\ Length(doc["title"]) <= MaxTitle
    /\ doc["content"] # <<>>
    /\ ~IsNull(doc["author"])
    /\ doc["status"] \in Statuses

\* content.split(/\s+/).length: one more than the whitespace runs
RECURSIVE WhitespaceRuns(_, _)
WhitespaceRuns(content, inRun) ==
    IF content = <<>> THEN 0
    ELSE IF Head(content) = Sp
         THEN (IF inRun THEN 0 ELSE 1) + WhitespaceRuns(Tail(content), TRUE)
    ELSE (Head(content).n - 1) + WhitespaceRuns(Tail(content), FALSE)

SplitLength(content) == WhitespaceRuns(content, FALSE) + 1

\* Math.ceil(a / b) for a >= 0, b > 0
Ceil(a, b) == (a + b - 1) \div b

\* first pre('save') hook, lines 134-138
ReadingTime(doc) ==
    IF doc["content"] # <<>>
    THEN Spread(doc, [readingTime |->
                         Ceil(SplitLength(doc["content"]), WordsPerMinute)])
    ELSE doc

PublishTransition_DateOnly(doc, modified, t) ==
    IF "status" \in modified /\ doc["status"] = "published"
       /\ IsNull(doc["publishedAt"])
    THEN Spread(doc, [publishedAt |-> DateOf(t)])
    ELSE doc

\* first pre('save') hook, lines 140-144; modified are the paths that
\* isModified answers true for
PublishTransition(doc, modified, t) ==
    IF "status" \in modified /\ doc["status"] = "published"
       /\ IsNull(doc["publishedAt"])
    THEN Spread(doc, [publishedAt |-> DateOf(t), isPublished |-> TRUE])
    ELSE doc

\* first pre('save') hook, lines 119-147
PreSave(doc, modified, t) ==
    PublishTransition(ReadingTime(DeriveSlug(doc)), modified, t)

\* the calls that work on a stored post at the same time: a route handler
\* or a caller of the model that has the document in memory
CallIds == {"c1", "c2"}

\* no call; of a call: the operation and its argument, the id it was given,
\* req.user, whether the route handler ran, the document as findById gave
\* it, the document in memory at the end, the response status and the error
NoOp == [op |-> "none", arg |-> EmptyObj, d |-> "", user |-> Null, handler |-> 0,
         loaded |-> Null, doc |-> Null, pc |-> "none", status |-> 0,
         error |-> ""]

\* the counter mutators, lines 164-196
Mutators == {"incrementViewCount", "incrementLikeCount", "decrementLikeCount",
             "incrementCommentCount", "decrementCommentCount"}

Mutate_Unguarded(op, arg, doc) ==
    CASE op = "decrementLikeCount" ->
            Spread(doc, [likeCount |-> doc["likeCount"] - 1])
      [] op = "decrementCommentCount" ->
            Spread(doc, [commentCount |-> doc["commentCount"] - 1])
      [] op = "incrementViewCount" ->
            Spread(doc, [viewCount |-> doc["viewCount"] + 1])
      [] op = "incrementLikeCount" ->
            Spread(doc, [likeCount |-> doc["likeCount"] + 1])
      [] op = "incrementCommentCount" ->
            Spread(doc, [commentCount |-> doc["commentCount"] + 1])
      [] OTHER -> Spread(doc, arg)

\* what a call does to the document in memory before save(): a counter
\* mutator (lines 164-196), assignments to paths (set), or the view of
\* GET /api/posts/:id (unnamed/part_001:252-254)
Mutate(op, arg, doc) ==
    CASE op = "incrementViewCount" ->
            Spread(doc, [viewCount |-> doc["viewCount"] + 1])
      [] op = "incrementLikeCount" ->
            Spread(doc, [likeCount |-> doc["likeCount"] + 1])
      [] op = "decrementLikeCount" ->
            IF doc["likeCount"] > 0
            THEN Spread(doc, [likeCount |-> doc["likeCount"] - 1])
            ELSE doc
      [] op = "incrementCommentCount" ->
            Spread(doc, [commentCount |-> doc["commentCount"] + 1])
      [] op = "decrementCommentCount" ->
            IF doc["commentCount"] > 0
            THEN Spread(doc, [commentCount |-> doc["commentCount"] - 1])
            ELSE doc
      [] op = "GET" ->
            IF doc["status"] = "published"
            THEN Spread(doc, [viewCount |-> doc["viewCount"] + 1])
            ELSE doc
      [] OTHER -> Spread(doc, arg)

\* the paths of b that differ from a: the paths isModified answers true for,
\* and the paths save() sends in its $set
Modified(a, b) == {k \in DOMAIN b : b[k] # a[k]}

ApplySet_Inc(stored, loaded, saved) ==
    Spread(stored,
           [k \in Modified(loaded, saved) |->
               IF k \in {"viewCount", "likeCount", "commentCount"}
               THEN stored[k] + (saved[k] - loaded[k])
               ELSE saved[k]])

\* updateOne({ _id }, { $set: delta }) on the stored document
ApplySet(stored, loaded, saved) ==
    Spread(stored, [k \in Modified(loaded, saved) |-> saved[k]])

MayChange_Authenticated(post, user) == ~IsNull(user)

\* the authorization check of PUT and DELETE /api/posts/:id,
\* unnamed/part_001:298 and 339
MayChange(post, user) ==
    \/ post["author"].oid = user["_id"]
    \/ user["role"] = "moderator"
    \/ user["role"] = "admin"

NoCall == [op |-> "none", issuedFor |-> Null, token |-> <<>>, at |-> 0,
           result |-> Null]

Init ==
    /\ now = 0
    /\ JWT_SECRET = DefaultSecret
    /\ JWT_EXPIRES_IN = DefaultLifetime
    /\ users = SeededUsers
    /\ issued = [id \in Ids |-> <<>>]
    /\ stale = {}
    /\ req = NoReq
    /\ pc = "idle"
    /\ res = NoRes
    /\ codec = NoCall
    /\ ended = {}
    /\ posts = [d \in Docs |-> Null]
    /\ saves = [d \in Docs |-> NoSave]
    /\ calls = [c \in CallIds |-> NoOp]

\* the clock advances between requests: a request is handled within a tick
Tick ==
    /\ pc = "idle"
    /\ now < MaxTime
    /\ now' = now + 1
    /\ UNCHANGED <<JWT_SECRET, JWT_EXPIRES_IN, users, issued, stale, req, pc, res, codec, ended,
                   posts, saves, calls>>

----------------------------------------------------------------------------
(* Calls of the TokenCodec on their own, as the unit tests make them *)

\* what callers pass to generateToken: a user with all four identity fields,
\* or with one of them undefined
Principals == {Without(UserDoc(i, r, TRUE), {"isActive"}) : i \in Ids, r \in Roles}
PartialPrincipals ==
    {Without(p, {k}) : p \in Principals, k \in {"_id", "email", "username", "role"}}

\* token strings a client can present that generateToken did not produce:
\* jwt.sign with another key, issuer, audience or expiry, a payload altered
\* under an old signature, and strings that are no JWS
WrongSecret == "wrong-secret"
CraftedClaims ==
    {Spread(PayloadOf(UserDoc("u2", "user", TRUE)), c) :
        c \in [iat : {0}, iss : {Issuer, "wrong-issuer"},
               aud : {Audience, "wrong-audience"}]
           \cup [iat : {0}, exp : 1 .. MaxTime, iss : {Issuer, "wrong-issuer"},
                 aud : {Audience, "wrong-audience"}]}
CraftedTokens ==
    {Compact([payload |-> c, mac |-> Hmac(c, k)]) :
        c \in CraftedClaims, k \in {DefaultSecret, WrongSecret}}
    \cup {Compact([payload |-> Spread(c, [role |-> "admin"]),
                   mac |-> Hmac(c, DefaultSecret)]) : c \in CraftedClaims}
NotJws == {<<W("invalid.token.here")>>, <<>>, <<W("not"), W("a"), W("jwt")>>}

CodecGenerate ==
    /\ \E user \in Principals \cup PartialPrincipals :
          LET r == generateToken(user, JWT_SECRET, JWT_EXPIRES_IN, now)
          IN codec' = [op |-> "generateToken", issuedFor |-> user,
                       token |-> IF r.ok THEN r.value ELSE <<>>,
                       at |-> now, result |-> r]
    /\ UNCHANGED <<now, JWT_SECRET, JWT_EXPIRES_IN, users, issued, stale, req, pc, res, ended,
                   posts, saves, calls>>

\* verifyToken on the token generateToken last returned, or on a crafted
\* one, under the configuration the module was loaded with
CodecVerify ==
    /\ \E str \in {codec.token} \cup CraftedTokens \cup NotJws :
          codec' = [op |-> "verifyToken",
                    issuedFor |-> IF str = codec.token THEN codec.issuedFor ELSE Null,
                    token |-> str, at |-> now,
                    secret |-> JWT_SECRET, expiresIn |-> JWT_EXPIRES_IN,
                    result |-> verifyToken(str, JWT_SECRET, now)]
    /\ UNCHANGED <<now, JWT_SECRET, JWT_EXPIRES_IN, users, issued, stale, req, pc, res, ended,
                   posts, saves, calls>>

NextCodec == Tick \/ CodecGenerate \/ CodecVerify

SpecCodec == Init /\ [][NextCodec]_vars

\* the other TokenCodec functions, called on the token generateToken last
\* returned, on a crafted one, or on a string that is no token
TokenInputs == {codec.token} \cup CraftedTokens \cup NotJws \cup {Unparsable}

Observe(op, str, result) ==
    [op |-> op,
     issuedFor |-> IF str = codec.token THEN codec.issuedFor ELSE Null,
     token |-> str, at |-> now, result |-> result]

CodecRefresh ==
    /\ \E str \in TokenInputs :
          codec' = Observe("refreshToken", str,
                           refreshToken(str, JWT_SECRET, JWT_EXPIRES_IN, now))
    /\ UNCHANGED <<now, JWT_SECRET, JWT_EXPIRES_IN, users, issued, stale, req, pc, res, ended,
                   posts, saves, calls>>

CodecIsExpired ==
    /\ \E str \in TokenInputs :
          codec' = Observe("isTokenExpired", str, isTokenExpired(str, now))
    /\ UNCHANGED <<now, JWT_SECRET, JWT_EXPIRES_IN, users, issued, stale, req, pc, res, ended,
                   posts, saves, calls>>

CodecDecode ==
    /\ \E str \in TokenInputs :
          codec' = Observe("decodeToken", str, decodeToken(str))
    /\ UNCHANGED <<now, JWT_SECRET, JWT_EXPIRES_IN, users, issued, stale, req, pc, res, ended,
                   posts, saves, calls>>

\* header values: absent, empty, and strings of words and spaces
HeaderInputs ==
    {NoHeader, HeaderOf(<<>>)}
    \cup {HeaderOf(str) :
            str \in {<<W("InvalidFormat")>>, <<W("Bearer")>>,
                     <<W("Bearer"), Sp>>,
                     <<W("Bearer"), Sp, W("valid.jwt.token")>>,
                     <<W("Bearer"), Sp, W("token"), Sp, W("extra")>>,
                     <<W("Bearer"), Sp, Sp, W("token")>>,
                     <<Sp, W("Bearer"), Sp, W("token")>>,
                     <<W("Basic"), Sp, W("dGVzdDp0ZXN0")>>,
                     <<W("bearer"), Sp, W("token")>>,
                     <<Sp, W("token")>>}}
    \cup {Bearer(str) : str \in CraftedTokens}

CodecExtract ==
    /\ \E header \in HeaderInputs :
          codec' = [op |-> "extractTokenFromHeader", issuedFor |-> Null,
                    token |-> <<>>, at |-> now, header |-> header,
                    result |-> extractTokenFromHeader(header)]
    /\ UNCHANGED <<now, JWT_SECRET, JWT_EXPIRES_IN, users, issued, stale, req, pc, res, ended,
                   posts, saves, calls>>

NextTokens ==
    \/ Tick \/ CodecGenerate
    \/ CodecRefresh \/ CodecIsExpired \/ CodecDecode \/ CodecExtract

SpecTokens == Init /\ [][NextTokens]_vars

\* the server started again with another environment: JWT_SECRET and
\* JWT_EXPIRES_IN are read once, when utils/auth.js is loaded
Secrets == {DefaultSecret, "custom-secret-key"}
Lifetimes == {DefaultLifetime, 2 * DefaultLifetime}

Restart(secret, expiresIn) ==
    /\ pc = "idle"
    /\ <<secret, expiresIn>> # <<JWT_SECRET, JWT_EXPIRES_IN>>
    /\ JWT_SECRET' = secret
    /\ JWT_EXPIRES_IN' = expiresIn
    /\ UNCHANGED <<now, users, issued, stale, req, pc, res, codec, ended,
                   posts, saves, calls>>

NextConfig ==
    \/ NextCodec
    \/ \E secret \in Secrets, expiresIn \in Lifetimes : Restart(secret, expiresIn)

SpecConfig == Init /\ [][NextConfig]_vars

----------------------------------------------------------------------------
(* Requests through the gate.  One request is followed step by step; the   *)
(* clock and the other requests (register, login, user management) run     *)
(* before it, between its steps and after it has left (EndRequest).        *)

\* token strings a client can present without the server having issued them
ForgedTokens ==
    {<<W("invalid.token")>>,
     LET c == Spread(PayloadOf(UserDoc("u1", "admin", TRUE)),
                     [iat |-> 0, iss |-> Issuer, aud |-> Audience])
     IN Compact([payload |-> c, mac |-> Hmac(c, WrongSecret)])}

\* the token strings the clients hold
Held == {issued[id] : id \in Ids} \ {<<>>}

Headers ==
    {NoHeader, HeaderOf(<<W("InvalidFormat")>>)}
    \cup {Bearer(str) : str \in Held \cup ForgedTokens}

\* the guards the routes put behind authenticate
RouteGuards == {NoGuard, RequireAdmin, RequireModerator}

\* POST /api/auth/register: a new user document and a token for it
Register(id) ==
    /\ pc # "done"
    /\ users[id] = Null
    /\ LET user == UserDoc(id, "user", TRUE)
           r == generateToken(user, JWT_SECRET, JWT_EXPIRES_IN, now)
       IN /\ users' = [users EXCEPT ![id] = user]
          /\ issued' = [issued EXCEPT ![id] = r.value]
    /\ stale' = stale \ {id}
    /\ ended' = ended \ {id}
    /\ UNCHANGED <<now, JWT_SECRET, JWT_EXPIRES_IN, req, pc, res, codec,
                   posts, saves, calls>>

\* POST /api/auth/login: a token for the stored user
Login(id) ==
    /\ pc # "done"
    /\ ~IsNull(users[id])
    /\ LET r == generateToken(users[id], JWT_SECRET, JWT_EXPIRES_IN, now)
       IN issued' = [issued EXCEPT ![id] = r.value]
    /\ stale' = stale \ {id}
    /\ ended' = ended \ {id}
    /\ UNCHANGED <<now, JWT_SECRET, JWT_EXPIRES_IN, users, req, pc, res, codec,
                   posts, saves, calls>>

Arrive(mw, guard, header) ==
    [NoReq EXCEPT !.mw = mw, !.guard = guard, !.header = header,
                  !.staleToken = \E id \in stale : header = Bearer(issued[id])]

\* authenticate up to its await
AuthenticateCall(guard, header) ==
    /\ pc = "idle"
    /\ LET rq == Arrive("authenticate", guard, header)
           ev == ExtractAndVerify(header, JWT_SECRET, now)
       IN IF ev.ok
          THEN /\ req' = [rq EXCEPT !.locals = ev.value]
               /\ res' = NoRes
               /\ pc' = "lookup"
          ELSE LET out == Rejected(rq, NoRes, "authenticate", 401,
                                   "Authentication failed")
               IN req' = out.req /\ res' = out.res /\ pc' = "done"
    /\ UNCHANGED <<now, JWT_SECRET, JWT_EXPIRES_IN, users, issued, stale, codec, ended,
                   posts, saves, calls>>

\* authenticate from its await to the end of the chain
AuthenticateLookup(dbError) ==
    /\ pc = "lookup" /\ req.mw = "authenticate"
    /\ LET out == authenticateResume(req, res, FindById(users, req.locals.decoded),
                                     dbError)
       IN req' = out.req /\ res' = out.res /\ pc' = "done"
    /\ UNCHANGED <<now, JWT_SECRET, JWT_EXPIRES_IN, users, issued, stale, codec, ended,
                   posts, saves, calls>>

\* optionalAuth up to its await
OptionalAuthCall(guard, header) ==
    /\ pc = "idle"
    /\ LET rq == Arrive("optionalAuth", guard, header)
           ev == ExtractAndVerify(header, JWT_SECRET, now)
       IN IF header.present /\ header.str # <<>> /\ ev.ok
          THEN /\ req' = [rq EXCEPT !.locals = ev.value]
               /\ res' = NoRes
               /\ pc' = "lookup"
          ELSE LET out == AfterNext(rq, NoRes)
               IN req' = out.req /\ res' = out.res /\ pc' = "done"
    /\ UNCHANGED <<now, JWT_SECRET, JWT_EXPIRES_IN, users, issued, stale, codec, ended,
                   posts, saves, calls>>

\* optionalAuth from its await to the end of the chain
OptionalAuthLookup(dbError) ==
    /\ pc = "lookup" /\ req.mw = "optionalAuth"
    /\ LET out == optionalAuthResume(req, res, FindById(users, req.locals.decoded),
                                     dbError)
       IN req' = out.req /\ res' = out.res /\ pc' = "done"
    /\ UNCHANGED <<now, JWT_SECRET, JWT_EXPIRES_IN, users, issued, stale, codec, ended,
                   posts, saves, calls>>

\* the followed request leaves the server: its outcome has been observed
EndRequest ==
    /\ pc = "done"
    /\ pc' = "idle" /\ req' = NoReq /\ res' = NoRes
    /\ UNCHANGED <<now, JWT_SECRET, JWT_EXPIRES_IN, users, issued, stale, codec, ended,
                   posts, saves, calls>>

\* authenticate, requireAdmin of a user management request, run to the end:
\* the admin the chain attached, or null when the chain sent a response
AdminOf(header) ==
    LET ev == ExtractAndVerify(header, JWT_SECRET, now) IN
    IF ~ev.ok THEN Null
    ELSE LET rq == [Arrive("authenticate", RequireAdmin, header)
                        EXCEPT !.locals = ev.value]
             out == authenticateResume(rq, NoRes, FindById(users, ev.value.decoded),
                                       FALSE)
         IN IF out.req.handler = 1 THEN out.req.user ELSE Null

\* POST /api/users/:id/deactivate
DeactivateUser(header, id) ==
    /\ pc # "done"
    /\ ~IsNull(AdminOf(header))
    /\ ~IsNull(users[id])
    /\ AdminOf(header)["_id"] # id
    /\ users' = [users EXCEPT ![id] = Spread(@, [isActive |-> FALSE])]
    /\ stale' = IF issued[id] # <<>> THEN stale \cup {id} ELSE stale
    /\ UNCHANGED <<now, JWT_SECRET, JWT_EXPIRES_IN, issued, req, pc, res, codec, ended,
                   posts, saves, calls>>

\* POST /api/users/:id/activate
ActivateUser(header, id) ==
    /\ pc # "done"
    /\ ~IsNull(AdminOf(header))
    /\ ~IsNull(users[id])
    /\ users' = [users EXCEPT ![id] = Spread(@, [isActive |-> TRUE])]
    /\ UNCHANGED <<now, JWT_SECRET, JWT_EXPIRES_IN, issued, stale, req, pc, res, codec, ended,
                   posts, saves, calls>>

\* POST /api/users/:id/change-role
ChangeRole(header, id, role) ==
    /\ pc # "done"
    /\ ~IsNull(AdminOf(header))
    /\ ~IsNull(users[id])
    /\ AdminOf(header)["_id"] # id
    /\ users' = [users EXCEPT ![id] = Spread(@, [role |-> role])]
    /\ UNCHANGED <<now, JWT_SECRET, JWT_EXPIRES_IN, issued, stale, req, pc, res, codec, ended,
                   posts, saves, calls>>

\* DELETE /api/users/:id
DeleteUser(header, id) ==
    /\ pc # "done"
    /\ ~IsNull(AdminOf(header))
    /\ ~IsNull(users[id])
    /\ AdminOf(header)["_id"] # id
    /\ users' = [users EXCEPT ![id] = Deleted]
    /\ UNCHANGED <<now, JWT_SECRET, JWT_EXPIRES_IN, issued, stale, req, pc, res, codec, ended,
                   posts, saves, calls>>

\* authenticate of a route without a guard, run to the end: the request as
\* the route handler gets it, or null when authenticate sent a response
Authenticated(header) ==
    LET ev == ExtractAndVerify(header, JWT_SECRET, now) IN
    IF ~ev.ok THEN Null
    ELSE LET rq == [Arrive("authenticate", NoGuard, header)
                        EXCEPT !.locals = ev.value]
             out == authenticateResume(rq, NoRes, FindById(users, ev.value.decoded),
                                       FALSE)
         IN IF out.req.handler = 1 THEN out.req ELSE Null

\* PUT /api/users/:id: the user is found, the requester is that user or an
\* admin, a role in the body needs an admin, and the body is written with
\* findByIdAndUpdate
UpdateUser(header, id, body) ==
    /\ pc # "done"
    /\ LET rq == Authenticated(header) IN
         /\ ~IsNull(rq)
         /\ ~IsNull(users[id])
         /\ rq.user["_id"] = id \/ rq.user["role"] = "admin"
         /\ Has(body, "role") => rq.user["role"] = "admin"
    /\ users' = [users EXCEPT ![id] = Spread(@, body)]
    /\ stale' = IF Has(body, "isActive") /\ ~body["isActive"] /\ issued[id] # <<>>
                THEN stale \cup {id} ELSE stale
    /\ UNCHANGED <<now, JWT_SECRET, JWT_EXPIRES_IN, issued, req, pc, res, codec, ended,
                   posts, saves, calls>>

\* bodies that pass updateUserValidation and name a path of the model
UserBodies == {[role |-> role] : role \in Roles}
              \cup {[isActive |-> active] : active \in BOOLEAN}

\* POST /api/auth/logout by the user who holds the token of id: the handler
\* logs and answers; removing the token is left to the client
Logout(id) ==
    /\ pc # "done"
    /\ issued[id] # <<>>
    /\ ~IsNull(Authenticated(Bearer(issued[id])))
    /\ ended' = ended \cup {id}
    /\ UNCHANGED <<now, JWT_SECRET, JWT_EXPIRES_IN, users, issued, stale, req, pc, res,
                   codec,
                   posts, saves, calls>>

\* POST /api/auth/refresh by the user who holds the token of id: the handler
\* answers with refreshToken(req.token)
Refresh(id) ==
    /\ pc # "done"
    /\ issued[id] # <<>>
    /\ LET rq == Authenticated(Bearer(issued[id])) IN
         /\ ~IsNull(rq)
         /\ codec' = [op |-> "refreshToken", issuedFor |-> rq.user,
                      token |-> rq.token, at |-> now,
                      result |-> refreshToken(rq.token, JWT_SECRET, JWT_EXPIRES_IN, now)]
    /\ ended' = ended \cup {id}
    /\ UNCHANGED <<now, JWT_SECRET, JWT_EXPIRES_IN, users, issued, stale, req, pc, res,
                   posts, saves, calls>>

\* authorize(roles) called on a request that carries user, as the unit
\* tests call it
AuthorizeCall(roles, user) ==
    /\ pc = "idle"
    /\ LET out == FromGuard([Arrive("none", Authorize(roles), NoHeader)
                                 EXCEPT !.user = user], NoRes)
       IN req' = out.req /\ res' = out.res /\ pc' = "done"
    /\ UNCHANGED <<now, JWT_SECRET, JWT_EXPIRES_IN, users, issued, stale, codec, ended,
                   posts, saves, calls>>

\* requireSelfOrAdmin(field) called on a request that carries user, with
\* route parameters and a parsed body
SelfOrAdminCall(field, user, params, body) ==
    /\ pc = "idle"
    /\ LET out == FromGuard([Arrive("none", RequireSelfOrAdmin(field), NoHeader)
                                 EXCEPT !.user = user, !.params = params,
                                        !.body = body], NoRes)
       IN req' = out.req /\ res' = out.res /\ pc' = "done"
    /\ UNCHANGED <<now, JWT_SECRET, JWT_EXPIRES_IN, users, issued, stale, codec, ended,
                   posts, saves, calls>>

\* req.user as a test or an earlier middleware sets it: null or a document
AttachedUsers == {Null} \cup {UserDoc(i, r, TRUE) : i \in Ids, r \in Roles}

\* the roles arguments: one role, or an array (also the default, empty one)
RolesArgs ==
    {OneRole(r) : r \in Roles}
    \cup {RoleList(l) : l \in {<<>>, <<"user">>, <<"admin", "moderator">>,
                                <<"moderator", "admin">>, <<"user", "moderator">>}}

\* route parameters are non-empty strings (a path segment); a body field is
\* any string, also the empty one
FieldNames == {"userId", "id"}
ParamObjs ==
    {EmptyObj} \cup {[k \in {f} |-> Str(i)] : f \in FieldNames, i \in Ids}
BodyObjs ==
    {EmptyObj} \cup {[k \in {f} |-> Str(i)] : f \in FieldNames, i \in Ids \cup {""}}

NextGuard ==
    \/ \E roles \in RolesArgs, user \in AttachedUsers : AuthorizeCall(roles, user)
    \/ \E field \in FieldNames, user \in AttachedUsers,
          params \in ParamObjs, body \in BodyObjs :
            SelfOrAdminCall(field, user, params, body)
    \/ EndRequest

SpecGuard == Init /\ [][NextGuard]_vars

NextGate ==
    \/ Tick
    \/ \E id \in Ids : Register(id)
    \/ \E id \in Ids : Login(id)
    \/ \E guard \in RouteGuards, header \in Headers : AuthenticateCall(guard, header)
    \/ \E dbError \in BOOLEAN : AuthenticateLookup(dbError)
    \/ \E header \in Headers : OptionalAuthCall(NoGuard, header)
    \/ \E dbError \in BOOLEAN : OptionalAuthLookup(dbError)
    \/ EndRequest
    \/ \E header \in Headers, id \in Ids : DeactivateUser(header, id)
    \/ \E header \in Headers, id \in Ids : ActivateUser(header, id)
    \/ \E header \in Headers, id \in Ids, role \in Roles : ChangeRole(header, id, role)
    \/ \E header \in Headers, id \in Ids : DeleteUser(header, id)

SpecGate == Init /\ [][NextGate]_vars

\* titles the handlers save posts with: 'Hi' is too short, '!!!!!' has the
\* five characters the validators ask for
Titles ==
    {<<W("Test"), Sp, W("Post")>>,
     <<W("test"), Sp, W("post"), Pn("!")>>,
     <<W("Other"), Sp, W("Post")>>,
     <<W("Hi")>>,
     <<Pn("!!!!!")>>}

\* 'This is a test post content.'
TestContent == <<Wn(6)>>

\* new Post({ title, content, author, category }), as the unit tests build it
TitledPosts == {[title |-> title, content |-> TestContent, author |-> Oid("u1")] :
                   title \in Titles}

\* new Post(input).save() up to the await of the second hook: the document
\* is validated, the first hook has run, the slug is modified, findOne is
\* sent; a ValidationError ends the save
PostSave(d, input) ==
    /\ IsNull(posts[d]) /\ saves[d].pc = "none"
    /\ LET doc == NewPost(d, input) IN
         saves' = [saves EXCEPT ![d] =
                      IF Validate(doc)
                      THEN [NoSave EXCEPT !.pc = "finding",
                               !.doc = PreSave(doc, DOMAIN input, now)]
                      ELSE [NoSave EXCEPT !.pc = "invalid", !.doc = doc]]
    /\ UNCHANGED <<now, JWT_SECRET, JWT_EXPIRES_IN, users, issued, stale, req, pc, res,
                   codec, ended, posts,
                   calls>>

\* the database answers the findOne of the second hook
PostFind(d) ==
    /\ saves[d].pc = "finding"
    /\ saves' = [saves EXCEPT ![d].pc = "found",
                              ![d].existing =
                                  FindOtherWithSlug(posts, saves[d].doc["slug"], d)]
    /\ UNCHANGED <<now, JWT_SECRET, JWT_EXPIRES_IN, users, issued, stale, req, pc, res,
                   codec, ended, posts,
                   calls>>

\* the second hook resumes, calls next(), and the insert is sent
PostResume(d) ==
    /\ saves[d].pc = "found"
    /\ saves' = [saves EXCEPT ![d].pc = "inserting",
                              ![d].doc = EnsureUnique(@, saves[d].existing, now)]
    /\ UNCHANGED <<now, JWT_SECRET, JWT_EXPIRES_IN, users, issued, stale, req, pc, res,
                   codec, ended, posts,
                   calls>>

\* the database applies the insert
PostCommit(d) ==
    /\ saves[d].pc = "inserting"
    /\ IF InsertRefused(posts, saves[d].doc)
       THEN /\ saves' = [saves EXCEPT ![d].pc = "failed", ![d].error = 11000]
            /\ posts' = posts
       ELSE /\ saves' = [saves EXCEPT ![d].pc = "saved"]
            /\ posts' = [posts EXCEPT ![d] = saves[d].doc]
    /\ UNCHANGED <<now, JWT_SECRET, JWT_EXPIRES_IN, users, issued, stale, req, pc, res,
                   codec, ended,
                   calls>>

\* the counter that a call adds to
Counted(op) ==
    CASE op \in {"incrementViewCount", "GET"} -> {"viewCount"}
      [] op = "incrementLikeCount" -> {"likeCount"}
      [] op = "incrementCommentCount" -> {"commentCount"}
      [] OTHER -> {}

\* findById(d) by a caller of the model that goes on to change the document
\* and save it
PostLoad(c, d, op, arg) ==
    /\ calls[c].pc = "none"
    /\ ~IsNull(posts[d])
    /\ \A k \in Counted(op) : posts[d][k] < MaxCount
    /\ calls' = [calls EXCEPT ![c] =
                    [NoOp EXCEPT !.op = op, !.arg = arg, !.d = d,
                                 !.loaded = posts[d], !.pc = "loaded"]]
    /\ UNCHANGED <<now, JWT_SECRET, JWT_EXPIRES_IN, users, issued, stale, req, pc, res,
                   codec, ended, posts, saves>>

\* GET /api/posts/:id up to the answer of findById: 404 for no post
PostView(c, d) ==
    /\ calls[c].pc = "none"
    /\ ~IsNull(posts[d]) => posts[d]["viewCount"] < MaxCount
    /\ calls' = [calls EXCEPT ![c] =
                    IF IsNull(posts[d])
                    THEN [NoOp EXCEPT !.op = "GET", !.d = d, !.handler = 1,
                                      !.pc = "done", !.status = 404]
                    ELSE [NoOp EXCEPT !.op = "GET", !.d = d, !.handler = 1,
                                      !.loaded = posts[d], !.pc = "loaded"]]
    /\ UNCHANGED <<now, JWT_SECRET, JWT_EXPIRES_IN, users, issued, stale, req, pc, res,
                   codec, ended, posts, saves>>

\* the call changes its document and saves it: validation, the first hook,
\* and updateOne with the modified paths; the slug is not modified, so the
\* second hook does nothing.  Nothing is sent when no path is modified;
\* updateOne of a document that is gone is a DocumentNotFoundError.
PostWrite(c) ==
    /\ calls[c].pc = "loaded"
    /\ calls[c].op \notin {"PUT", "DELETE"}
    /\ LET call == calls[c]
           mutated == Mutate(call.op, call.arg, call.loaded)
           saved == PreSave(mutated, Modified(call.loaded, mutated), now)
           ok == IF call.op = "GET" THEN 200 ELSE 0
           ko == IF call.op = "GET" THEN 500 ELSE 0
       IN IF ~Validate(mutated)
          THEN /\ calls' = [calls EXCEPT ![c].pc = "done", ![c].doc = mutated,
                                         ![c].status = ko,
                                         ![c].error = "ValidationError"]
               /\ posts' = posts
          ELSE IF Modified(call.loaded, saved) = {}
          THEN /\ calls' = [calls EXCEPT ![c].pc = "done", ![c].doc = saved,
                                         ![c].status = ok]
               /\ posts' = posts
          ELSE IF IsNull(posts[call.d])
          THEN /\ calls' = [calls EXCEPT ![c].pc = "done", ![c].doc = saved,
                                         ![c].status = ko,
                                         ![c].error = "DocumentNotFoundError"]
               /\ posts' = posts
          ELSE /\ calls' = [calls EXCEPT ![c].pc = "done", ![c].doc = saved,
                                         ![c].status = ok]
               /\ posts' = [posts EXCEPT ![call.d] =
                                ApplySet(@, call.loaded, saved)]
    /\ UNCHANGED <<now, JWT_SECRET, JWT_EXPIRES_IN, users, issued, stale, req, pc, res,
                   codec, ended, saves>>

\* PUT and DELETE /api/posts/:id up to the answer of findById: authenticate
\* answers 401 or attaches req.user, the handler answers 404 for no post
PostRoute(c, method, header, d, body) ==
    /\ calls[c].pc = "none"
    /\ LET rq == Authenticated(header)
           call == [NoOp EXCEPT !.op = method, !.arg = body, !.d = d]
       IN calls' = [calls EXCEPT ![c] =
                       IF IsNull(rq)
                       THEN [call EXCEPT !.pc = "done", !.status = 401]
                       ELSE IF IsNull(posts[d])
                       THEN [call EXCEPT !.user = rq.user, !.handler = 1,
                                         !.pc = "done", !.status = 404]
                       ELSE [call EXCEPT !.user = rq.user, !.handler = 1,
                                         !.loaded = posts[d], !.pc = "loaded"]]
    /\ UNCHANGED <<now, JWT_SECRET, JWT_EXPIRES_IN, users, issued, stale, req, pc, res,
                   codec, ended, posts, saves>>

\* PUT /api/posts/:id from the authorization check on: 403, or
\* findByIdAndUpdate(id, req.body), which runs no save hook; the handler
\* reads updatedPost.title, a TypeError (500) when the post is gone
PostUpdate(c) ==
    /\ calls[c].pc = "loaded" /\ calls[c].op = "PUT"
    /\ LET call == calls[c] IN
         IF ~MayChange(call.loaded, call.user)
         THEN /\ calls' = [calls EXCEPT ![c].pc = "done", ![c].status = 403]
              /\ posts' = posts
         ELSE IF IsNull(posts[call.d])
         THEN /\ calls' = [calls EXCEPT ![c].pc = "done", ![c].status = 500]
              /\ posts' = posts
         ELSE /\ calls' = [calls EXCEPT ![c].pc = "done", ![c].status = 200,
                                        ![c].doc = Spread(posts[call.d], call.arg)]
              /\ posts' = [posts EXCEPT ![call.d] = Spread(@, call.arg)]
    /\ UNCHANGED <<now, JWT_SECRET, JWT_EXPIRES_IN, users, issued, stale, req, pc, res,
                   codec, ended, saves>>

\* DELETE /api/posts/:id from the authorization check on: 403, or
\* findByIdAndDelete(id)
PostDelete(c) ==
    /\ calls[c].pc = "loaded" /\ calls[c].op = "DELETE"
    /\ LET call == calls[c] IN
         IF ~MayChange(call.loaded, call.user)
         THEN /\ calls' = [calls EXCEPT ![c].pc = "done", ![c].status = 403]
              /\ posts' = posts
         ELSE /\ calls' = [calls EXCEPT ![c].pc = "done", ![c].status = 200]
              /\ posts' = [posts EXCEPT ![call.d] = Null]
    /\ UNCHANGED <<now, JWT_SECRET, JWT_EXPIRES_IN, users, issued, stale, req, pc, res,
                   codec, ended, saves>>

\* the call has returned
PostReturn(c) ==
    /\ calls[c].pc = "done"
    /\ calls' = [calls EXCEPT ![c] = NoOp]
    /\ UNCHANGED <<now, JWT_SECRET, JWT_EXPIRES_IN, users, issued, stale, req, pc, res,
                   codec, ended, posts, saves>>

NextPosts ==
    \/ Tick
    \/ \E d \in Docs, input \in TitledPosts : PostSave(d, input)
    \/ \E d \in Docs : PostFind(d) \/ PostResume(d) \/ PostCommit(d)

SpecPosts == Init /\ [][NextPosts]_vars

\* one post is created and callers of the model run the counter mutators on
\* it, two at a time
CountedPost == [title |-> <<W("Test"), Sp, W("Post")>>, content |-> TestContent,
                author |-> Oid("u1")]

NextCounters ==
    \/ PostSave("p1", CountedPost)
    \/ PostFind("p1") \/ PostResume("p1") \/ PostCommit("p1")
    \/ \E c \in CallIds, op \in Mutators : PostLoad(c, "p1", op, EmptyObj)
    \/ \E c \in CallIds : PostWrite(c) \/ PostReturn(c)

SpecCounters == Init /\ [][NextCounters]_vars

\* the life of one post, one call after the other: POST /api/posts creates it
\* with a status, a caller of the model assigns a status and saves,
\* GET /api/posts/:id views it, and PUT /api/posts/:id updates it with the
\* body the client sent
StatusPosts == {[title |-> <<W("Test"), Sp, W("Post")>>, content |-> TestContent,
                 author |-> Oid("u1"), status |-> status] : status \in Statuses}

\* bodies that pass updatePostValidation, which looks at title, content,
\* category, tags and status only
StatusBodies == {[status |-> status] : status \in Statuses}
                \cup {[publishedAt |-> Null]}

NextLifecycle ==
    \/ Tick
    \/ Login("u1")
    \/ \E input \in StatusPosts : PostSave("p1", input)
    \/ PostFind("p1") \/ PostResume("p1") \/ PostCommit("p1")
    \/ \E status \in Statuses : PostLoad("c1", "p1", "set", [status |-> status])
    \/ PostView("c1", "p1")
    \/ \E header \in Headers, body \in StatusBodies :
          PostRoute("c1", "PUT", header, "p1", body)
    \/ PostWrite("c1") \/ PostUpdate("c1") \/ PostReturn("c1")

SpecLifecycle == Init /\ [][NextLifecycle]_vars

\* contents: 'This is a test post content.', 'This is a test content. '
\* repeated 50 times, and 400 words
Contents == {TestContent, <<Wn(250), Sp>>, <<Wn(400)>>}

ContentPosts == {[title |-> <<W("Test"), Sp, W("Post")>>, content |-> content,
                  author |-> Oid("u1"), status |-> "draft"] :
                    content \in Contents}

\* one post is created, a caller of the model assigns it another content and
\* saves, and PUT /api/posts/:id updates its content
NextReading ==
    \/ Login("u1")
    \/ \E input \in ContentPosts : PostSave("p1", input)
    \/ PostFind("p1") \/ PostResume("p1") \/ PostCommit("p1")
    \/ \E content \in Contents :
          PostLoad("c1", "p1", "set", [content |-> content])
    \/ \E header \in Headers, content \in Contents :
          PostRoute("c1", "PUT", header, "p1", [content |-> content])
    \/ PostWrite("c1") \/ PostUpdate("c1") \/ PostReturn("c1")

SpecReading == Init /\ [][NextReading]_vars

\* posts of the two users
AuthoredPosts == {[title |-> <<W("Test"), Sp, W("Post")>>, content |-> TestContent,
                   author |-> Oid(id), status |-> "draft"] : id \in Ids}

\* users register, log in and get another role; one post is created, and
\* PUT and DELETE /api/posts/:id requests on it run two at a time, all within
\* the lifetime of the tokens
NextPostRoutes ==
    \/ Register("u2")
    \/ \E id \in Ids : Login(id)
    \/ \E header \in Headers, role \in Roles : ChangeRole(header, "u2", role)
    \/ \E input \in AuthoredPosts : PostSave("p1", input)
    \/ PostFind("p1") \/ PostResume("p1") \/ PostCommit("p1")
    \/ \E c \in CallIds, header \in Headers :
          \/ PostRoute(c, "PUT", header, "p1", [status |-> "archived"])
          \/ PostRoute(c, "DELETE", header, "p1", EmptyObj)
    \/ \E c \in CallIds : PostUpdate(c) \/ PostDelete(c) \/ PostReturn(c)

SpecPostRoutes == Init /\ [][NextPostRoutes]_vars

\* sessions: tokens are issued, used, refreshed and logged out, and users are
\* deactivated and activated again
NextSession ==
    \/ Tick
    \/ \E id \in Ids : Register(id) \/ Login(id) \/ Logout(id) \/ Refresh(id)
    \/ \E header \in Headers : AuthenticateCall(NoGuard, header)
    \/ \E dbError \in BOOLEAN : AuthenticateLookup(dbError)
    \/ EndRequest
    \/ \E header \in Headers, id \in Ids :
          DeactivateUser(header, id) \/ ActivateUser(header, id)

SpecSession == Init /\ [][NextSession]_vars

\* user management: users register and log in, and the user-management
\* routes are called with the tokens they hold
NextUsers ==
    \/ Tick
    \/ \E id \in Ids : Register(id) \/ Login(id)
    \/ \E header \in Headers, id \in Ids :
          \/ DeactivateUser(header, id) \/ ActivateUser(header, id)
          \/ DeleteUser(header, id)
          \/ \E role \in Roles : ChangeRole(header, id, role)
          \/ \E body \in UserBodies : UpdateUser(header, id, body)

SpecUsers == Init /\ [][NextUsers]_vars

----------------------------------------------------------------------------
(* Properties of the TokenCodec, under SpecCodec *)

VerifyCalled == codec.op = "verifyToken"
VerifiedClaims == JwtDecode(codec.token)

\* C8: verify rejects every token whose issuer claim is not 'mern-testing-app'
\* or whose audience claim is not 'mern-testing-users', also when the token is
\* signed with the configured secret and not expired.
C8_WrongIssuerOrAudienceRejected ==
    (/\ VerifyCalled
     /\ IsJws(codec.token)
     /\ \/ ~Has(VerifiedClaims, "iss") \/ VerifiedClaims["iss"] # Issuer
        \/ ~Has(VerifiedClaims, "aud") \/ VerifiedClaims["aud"] # Audience)
    => ~codec.result.ok

\* C9: verify fails for every token that is no JWS, that is not signed with the
\* configured secret over its payload, or whose expiry is reached, and the
\* caller gets the one failure 'Invalid token' in each of these cases.
SignedWithSecret(str) == str[1].t.mac = Hmac(str[1].t.payload, JWT_SECRET)
ExpiredAt(str, t) ==
    Has(JwtDecode(str), "exp") /\ JwtDecode(str)["exp"] <= t

C9_VerifyFailsUndifferentiated ==
    (/\ VerifyCalled
     /\ \/ ~IsJws(codec.token)
        \/ ~SignedWithSecret(codec.token)
        \/ ExpiredAt(codec.token, codec.at))
    => codec.result = Throw("Invalid token")

C9_Witness ==
    /\ VerifyCalled
    /\ IsJws(codec.token)
    /\ SignedWithSecret(codec.token)
    /\ VerifiedClaims["iss"] = Issuer /\ VerifiedClaims["aud"] = Audience
    /\ ExpiredAt(codec.token, codec.at)
    /\ codec.result = Throw("Invalid token")

\* C10: verify of a token that issue returned for a principal with id, email,
\* username and role, called before the token's expiry under the same
\* configuration, succeeds and returns claims with that principal's id, email,
\* username and role.
FullPrincipal(user) ==
    /\ ~IsNull(user)
    /\ {"_id", "email", "username", "role"} \subseteq DOMAIN user

SameIdentity(claims, user) ==
    /\ {"id", "email", "username", "role"} \subseteq DOMAIN claims
    /\ claims["id"] = user["_id"]
    /\ claims["email"] = user["email"]
    /\ claims["username"] = user["username"]
    /\ claims["role"] = user["role"]

C10_RoundTrip ==
    (/\ VerifyCalled
     /\ FullPrincipal(codec.issuedFor)
     /\ IsJws(codec.token)
     /\ ~ExpiredAt(codec.token, codec.at))
    => /\ codec.result.ok
       /\ SameIdentity(codec.result.value, codec.issuedFor)

C10_Witness ==
    /\ VerifyCalled
    /\ FullPrincipal(codec.issuedFor)
    /\ IsJws(codec.token)
    /\ ~ExpiredAt(codec.token, codec.at)
    /\ codec.result.ok
    /\ SameIdentity(codec.result.value, codec.issuedFor)

----------------------------------------------------------------------------
(* Properties of the AccessGate, under SpecGate *)

Finished(mw) == pc = "done" /\ req.mw = mw
Suspended(mw) == pc = "lookup" /\ req.mw = mw

\* what the request's header yields, and whether that token verifies
Presented == extractTokenFromHeader(req.header)
TokenVerifies == Presented.ok /\ verifyToken(Presented.value, JWT_SECRET, now).ok
\* the stored principal with the token's subject id, or null
Subject == FindById(users, JwtDecode(Presented.value))
SubjectActive == ~IsNull(Subject) /\ Subject["isActive"]

GenericFailure ==
    [status |-> 401, error |-> "Authentication failed", by |-> "authenticate",
     count |-> 1]

\* C1: authenticate calls the downstream handler only when the header yielded
\* a token, the token verified, and the principal with the token's subject id
\* is stored and active, and it has then attached that principal and the token;
\* a finished run has either called the handler once or sent one 401, never
\* both and never neither.
C1_OnlyAuthenticatedProceeds ==
    /\ Suspended("authenticate") => req.nexts = 0 /\ res.count = 0
    /\ Finished("authenticate") =>
         LET invoked == req.nexts = 1
             sent401 == res.by = "authenticate" /\ res.status = 401
         IN /\ req.nexts <= 1 /\ res.count <= 1
            /\ ~(invoked <=> sent401)
            /\ sent401 => res.count = 1 /\ req.handler = 0
            /\ invoked => /\ TokenVerifies
                          /\ SubjectActive
                          /\ req.user = Subject
                          /\ req.token = Presented.value

C1_Witness ==
    /\ Finished("authenticate")
    /\ req.nexts = 1 /\ req.handler = 1
    /\ req.user = Subject /\ req.token = Presented.value
    /\ res.count = 0

\* C2: when the header is missing or not of the Bearer form, when the token
\* fails verification, or when the principal lookup raises, authenticate
\* answers 401 {error: "Authentication failed"} and does not call the handler.
C2_FailuresAnswered401 ==
    (/\ Finished("authenticate")
     /\ ~Presented.ok \/ ~TokenVerifies \/ req.dbError)
    => /\ res = GenericFailure
       /\ req.nexts = 0 /\ req.handler = 0

C2_Witness ==
    /\ Finished("authenticate")
    /\ TokenVerifies /\ SubjectActive
    /\ req.dbError
    /\ res = GenericFailure /\ req.nexts = 0

\* C3: when the token verifies but no principal with its subject id is stored,
\* or that principal is not active, authenticate sends the same response as
\* for every other authentication failure: 401 {error: "Authentication failed"}.
C3_MissingOrInactiveGeneric ==
    (/\ Finished("authenticate")
     /\ TokenVerifies /\ ~req.dbError
     /\ ~SubjectActive)
    => res = GenericFailure

\* C4, as claimed: once a principal has been deactivated, every later
\* authenticate with a token issued to it before the deactivation is rejected;
\* and authorize decides by the stored role, not by the token's.
AllowedRoles(roles) == {roles.items[i] : i \in 1 .. Len(roles.items)}
DecidedByStoredRole ==
    (Finished("authenticate") /\ req.nexts = 1 /\ req.guard.kind = "authorize")
    => (req.handler = 1 <=> Subject["role"] \in AllowedRoles(req.guard.roles))

C4_DeactivatedOnceRejectedEver ==
    /\ (Finished("authenticate") /\ req.staleToken) => req.nexts = 0
    /\ DecidedByStoredRole

\* C4, amended: while a principal is deactivated in storage, every
\* authenticate with a token issued to it is rejected although the token
\* verifies (an admin can activate the principal again, and the same token
\* then authenticates); and authorize decides by the stored role, not by the
\* role in the token.
C4_StoredStateDecides ==
    /\ (Finished("authenticate") /\ TokenVerifies
            /\ ~IsNull(Subject) /\ ~Subject["isActive"])
        => req.nexts = 0 /\ req.handler = 0
    /\ DecidedByStoredRole

C4_Witness ==
    /\ Finished("authenticate")
    /\ req.staleToken /\ TokenVerifies
    /\ ~IsNull(Subject) /\ ~Subject["isActive"]
    /\ req.nexts = 0 /\ res.status = 401

\* C7: optionalAuth never sends a response: whatever the header, the token and
\* the principal, it calls the downstream handler exactly once, and it attaches
\* a principal and a token only when the token verifies and the principal is
\* stored and active.
C7_OptionalAuthNeverRejects ==
    /\ Suspended("optionalAuth") => req.nexts = 0 /\ res.count = 0
    /\ Finished("optionalAuth") =>
         /\ res = NoRes
         /\ req.nexts = 1 /\ req.handler = 1
         /\ (~IsNull(req.user) \/ req.token # <<>>) =>
               /\ TokenVerifies
               /\ SubjectActive
               /\ req.user = Subject
               /\ req.token = Presented.value

C7_Witness ==
    /\ Finished("optionalAuth")
    /\ TokenVerifies
    /\ ~IsNull(Subject) /\ ~Subject["isActive"]
    /\ IsNull(req.user) /\ req.token = <<>>
    /\ res = NoRes /\ req.nexts = 1

----------------------------------------------------------------------------
(* Properties of the authorization middleware, under SpecGuard *)

GuardRan(kind) == pc = "done" /\ req.mw = "none" /\ req.guard.kind = kind
Answer(by, status, error) ==
    [status |-> status, error |-> error, by |-> by, count |-> 1]

ResourceId ==
    IF Has(req.params, req.guard.field) THEN req.params[req.guard.field]
    ELSE Get(req.body, req.guard.field)

----------------------------------------------------------------------------
(* Properties of refresh, isExpired, decode and extractFromHeader, under   *)
(* SpecTokens                                                               *)

Called(op) == codec.op = op
OldClaims == JwtDecode(codec.token)
NewClaims == JwtDecode(codec.result.value)
IdentityClaims == {"id", "email", "username", "role"}

\* C11: refresh of a token that issue produced yields a token whose subject
\* id, email, username and role are those of the original token.
C11_RefreshKeepsIdentity ==
    (Called("refreshToken") /\ FullPrincipal(codec.issuedFor))
    => /\ codec.result.ok
       /\ \A k \in IdentityClaims :
             Has(NewClaims, k) /\ NewClaims[k] = OldClaims[k]

\* C12: the token refresh returns has an expiry strictly greater than the
\* expiry of the token it was called on, whenever it is called.
C12_RefreshExtendsExpiry ==
    (Called("refreshToken") /\ ~IsNull(codec.issuedFor))
    => /\ codec.result.ok
       /\ NewClaims["exp"] > OldClaims["exp"]

C16_IsExpiredFailClosed ==
    Called("isTokenExpired") =>
      /\ codec.result.ok
      /\ IF ~IsJws(codec.token) \/ ~Has(OldClaims, "exp")
         THEN codec.result.value = TRUE
         ELSE codec.result.value = (OldClaims["exp"] < codec.at)

C16_Witness ==
    /\ Called("isTokenExpired")
    /\ IsJws(codec.token) /\ SignedWithSecret(codec.token)
    /\ ~Has(OldClaims, "exp")
    /\ codec.result = Return(TRUE)

\* C17: decode never raises: for every input, also one on which the library's
\* parser fails, it returns the claims or an absent result.
C17_DecodeNeverRaises ==
    Called("decodeToken") =>
      /\ codec.result.ok
      /\ codec.result.value = IF IsJws(codec.token) THEN OldClaims ELSE Null

\* C18: extractFromHeader returns the token exactly when the header value has
\* two space-separated segments of which the first is 'Bearer', and the token
\* is the second segment; it fails with 'Authorization header missing' when
\* the header is absent or empty and with 'Invalid authorization header
\* format' for every other value.
TwoSegmentsBearer(str) ==
    /\ Len(str) \in {2, 3}
    /\ str[1] = W("Bearer")
    /\ str[2] = Sp
    /\ Len(str) = 3 => str[3].a # "sp"

C18_ExtractExactlyBearer ==
    Called("extractTokenFromHeader") =>
      LET h == codec.header IN
      IF ~h.present \/ h.str = <<>>
      THEN codec.result = Throw("Authorization header missing")
      ELSE IF TwoSegmentsBearer(h.str)
      THEN codec.result = Return(SubSeq(h.str, 3, Len(h.str)))
      ELSE codec.result = Throw("Invalid authorization header format")

C18_Witness ==
    /\ Called("extractTokenFromHeader")
    /\ codec.header.present
    /\ Len(codec.header.str) = 3
    /\ codec.header.str[1] = W("Basic")
    /\ codec.result = Throw("Invalid authorization header format")

----------------------------------------------------------------------------
(* Properties of the configuration, under SpecConfig *)

IssuedAndUnexpired ==
    /\ VerifyCalled
    /\ ~IsNull(codec.issuedFor)
    /\ IsJws(codec.token)
    /\ ~ExpiredAt(codec.token, codec.at)

\* C14, as claimed: a token issued before the signing secret or the token
\* lifetime was changed still verifies after the change, until its own expiry.
C14_ConfigChangeKeepsTokens ==
    IssuedAndUnexpired => codec.result.ok

\* C14, amended: a change of the token lifetime leaves the tokens already
\* issued valid until their own expiry; a change of the signing secret makes
\* verify reject every token issued under the previous secret.
SignedWith(str, secret) == str[1].t.mac = Hmac(str[1].t.payload, secret)

C14_OnlySecretChangeInvalidates ==
    IssuedAndUnexpired =>
      IF SignedWith(codec.token, codec.secret)
      THEN codec.result = Return(OldClaims)
      ELSE codec.result = Throw("Invalid token")

C14_Witness ==
    /\ IssuedAndUnexpired
    /\ SignedWith(codec.token, codec.secret)
    /\ OldClaims["exp"] - OldClaims["iat"] # codec.expiresIn
    /\ codec.at >= OldClaims["iat"] + codec.expiresIn
    /\ codec.result.ok

----------------------------------------------------------------------------
(* Properties of the sessions, under SpecSession *)

\* the request carries a token string that was sent to logout or refresh
\* after it was issued
EndedToken ==
    \E id \in ended : req.header = Bearer(issued[id])

\* C15: refresh and logout revoke nothing: a token that was sent to logout or
\* to refresh still authenticates afterwards, for a stored and active
\* principal, as long as it verifies, that is until its own expiry.
C15_LogoutRefreshRevokeNothing ==
    (/\ Finished("authenticate")
     /\ EndedToken
     /\ TokenVerifies /\ SubjectActive /\ ~req.dbError)
    => /\ req.nexts = 1 /\ req.handler = 1
       /\ res = NoRes
       /\ req.user = Subject /\ req.token = Presented.value

C15_Witness ==
    /\ Finished("authenticate")
    /\ EndedToken
    /\ Called("refreshToken") /\ codec.token = Presented.value
    /\ codec.result.ok
    /\ req.nexts = 1 /\ req.handler = 1

----------------------------------------------------------------------------
(* Properties of the ContentPipeline, under SpecPosts *)

Stored == {d \in Docs : ~IsNull(posts[d])}

\* C19: after any sequence of post saves, also of posts with the same title
\* and also when the check and the commit of two saves interleave, no two
\* stored posts have the same slug.
C19_SlugsUnique ==
    \A d, e \in Stored : d # e => posts[d]["slug"] # posts[e]["slug"]

\* C20: the commit of a post whose slug is the slug of another stored post is
\* refused by the storage layer with the duplicate-key error 11000, and the
\* post is not stored.
CommitStep(d) == saves[d].pc = "inserting" /\ saves'[d].pc # "inserting"

C20_DuplicateSlugRefused ==
    [][\A d \in Docs :
         (CommitStep(d) /\ FindOtherWithSlug(posts, saves[d].doc["slug"], d))
         => /\ saves'[d].pc = "failed" /\ saves'[d].error = 11000
            /\ posts' = posts]_vars

\* the slug as a string is not ''
NonEmptySlug(slug) == slug.base # <<>> \/ slug.suffix # <<>>

\* no upper-case letter in the slug
LowercaseSlug(slug) ==
    \A i \in DOMAIN slug.base : Lower(slug.base[i].s) = slug.base[i].s

\* the slug is made of letters, digits and hyphens
UrlSafeSlug(slug) ==
    \A i \in DOMAIN slug.base : slug.base[i].a \in {"word", "hyphen"}

\* C21: every stored post that was saved through the save pipeline has a slug
\* that is non-empty, lowercase and URL-safe, for every title the validators
\* accept; the slug is the one derived from the title.
C21_SlugWellFormed ==
    \A d \in Stored :
        /\ NonEmptySlug(posts[d]["slug"])
        /\ LowercaseSlug(posts[d]["slug"])
        /\ UrlSafeSlug(posts[d]["slug"])
        /\ posts[d]["slug"].base = SlugifyFrom(posts[d]["title"], <<>>)

----------------------------------------------------------------------------
(* isTokenExpired against verifyToken, under SpecTokens *)

\* C30: isExpired and verify agree on expiry at every instant: for every
\* correctly signed token that carries an expiry claim and every current time
\* in whole seconds, isExpired is false exactly when verify does not reject
\* the token as expired, also when the current time equals the expiry.
C30_IsExpiredAgreesWithVerify ==
    (/\ Called("isTokenExpired")
     /\ IsJws(codec.token) /\ SignedWithSecret(codec.token)
     /\ Has(OldClaims, "exp"))
    => (codec.result = Return(FALSE)
          <=> verifyToken(codec.token, JWT_SECRET, codec.at).ok)

----------------------------------------------------------------------------
(* Properties of the counters, under SpecCounters *)

Counters == {"viewCount", "likeCount", "commentCount"}

\* the counter a decrement works on
Decremented(op) ==
    CASE op = "decrementLikeCount" -> "likeCount"
      [] op = "decrementCommentCount" -> "commentCount"
      [] OTHER -> ""

\* the step in which call c saves its document
WriteStep(c) == calls[c].pc = "loaded" /\ calls'[c].pc = "done"

\* C25: after any sequence and any interleaving of counter mutator calls the
\* three counters of a stored post are non-negative; a decrement applied to a
\* count of 0 leaves it 0 and does not raise, and a decrement applied to a
\* count n > 0 yields n - 1.
C25_CountersSaturate ==
    /\ [](\A d \in Stored : \A k \in Counters : posts[d][k] >= 0)
    /\ [][\A c \in CallIds :
            (WriteStep(c) /\ Decremented(calls[c].op) # "")
            => LET k == Decremented(calls[c].op)
                   n == calls[c].loaded[k]
                   d == calls[c].d
               IN /\ calls'[c].error = ""
                  /\ n = 0 => calls'[c].doc[k] = 0 /\ posts' = posts
                  /\ n > 0 => calls'[c].doc[k] = n - 1
                               /\ posts'[d][k] = n - 1]_vars

C25_Witness ==
    /\ calls["c1"].pc = "done" /\ calls["c1"].op = "decrementLikeCount"
    /\ calls["c1"].loaded["likeCount"] = 0 /\ posts["p1"]["likeCount"] = 0
    /\ calls["c2"].pc = "done" /\ calls["c2"].op = "decrementCommentCount"
    /\ calls["c2"].loaded["commentCount"] > 0

\* two finished incrementViewCount calls on one post that both read count N
BothRead(c, e) ==
    /\ c # e
    /\ calls[c].pc = "done" /\ calls[e].pc = "done"
    /\ calls[c].op = "incrementViewCount" /\ calls[e].op = "incrementViewCount"
    /\ calls[c].d = calls[e].d
    /\ calls[c].error = "" /\ calls[e].error = ""
    /\ calls[c].loaded["viewCount"] = calls[e].loaded["viewCount"]

\* C26: the counter mutators read, modify and write without atomicity: when
\* two concurrent incrementViewCount calls on one post both read count N, both
\* write N + 1 and the stored viewCount is N + 1 after the two increments have
\* completed; such an interleaving is reachable.
C26_LostUpdate ==
    \A c, e \in CallIds :
        BothRead(c, e)
        => /\ calls[c].doc["viewCount"] = calls[c].loaded["viewCount"] + 1
           /\ calls[e].doc["viewCount"] = calls[e].loaded["viewCount"] + 1
           /\ posts[calls[c].d]["viewCount"] = calls[c].loaded["viewCount"] + 1

C26_Witness ==
    /\ BothRead("c1", "c2")
    /\ posts["p1"]["viewCount"] = calls["c1"].loaded["viewCount"] + 1

----------------------------------------------------------------------------
(* Properties of the life of a post, under SpecLifecycle *)

\* C22: in every stored state of a post, after any sequence of creates, saves,
\* status changes and route-level updates, isPublished is true exactly when
\* status is published.
C22_PublishedFlagMatchesStatus ==
    \A d \in Stored :
        posts[d]["isPublished"] <=> posts[d]["status"] = "published"

Publishes(c) ==
    /\ calls[c].loaded["status"] # "published"
    /\ calls'[c].doc["status"] = "published"
    /\ IsNull(calls[c].loaded["publishedAt"])

\* C24: a save that changes the status of a post into published while
\* publishedAt is not set sets publishedAt to a timestamp and isPublished to
\* true; a post saved as draft has publishedAt null, and a save that is no
\* such transition leaves publishedAt as it is.
C24_PublishTransition ==
    [][/\ \A d \in Docs :
            CommitStep(d) /\ saves'[d].pc = "saved"
            => IF saves[d].doc["status"] = "published"
               THEN ~IsNull(posts'[d]["publishedAt"]) /\ posts'[d]["isPublished"]
               ELSE IsNull(posts'[d]["publishedAt"])
       /\ \A c \in CallIds :
            (WriteStep(c) /\ calls[c].op \notin {"PUT", "DELETE"}
               /\ calls'[c].error = "")
            => LET d == calls[c].d IN
               IF Publishes(c)
               THEN /\ posts'[d]["publishedAt"] = DateOf(now)
                    /\ posts'[d]["isPublished"]
                    /\ posts'[d]["status"] = "published"
               ELSE posts'[d]["publishedAt"] = posts[d]["publishedAt"]]_vars

C24_Witness ==
    /\ calls["c1"].pc = "done" /\ calls["c1"].op = "set"
    /\ calls["c1"].loaded["status"] = "draft"
    /\ IsNull(calls["c1"].loaded["publishedAt"])
    /\ posts["p1"]["status"] = "published"
    /\ posts["p1"]["publishedAt"] = DateOf(now) /\ now > 0
    /\ posts["p1"]["isPublished"]

----------------------------------------------------------------------------
(* Properties of the reading time, under SpecReading *)

\* the number of whitespace-separated words of a content
RECURSIVE WordCount(_)
WordCount(content) ==
    IF content = <<>> THEN 0
    ELSE (IF Head(content) = Sp THEN 0 ELSE Head(content).n)
         + WordCount(Tail(content))

----------------------------------------------------------------------------
(* Properties of PUT and DELETE /api/posts/:id, under SpecPostRoutes *)

ChangeRoutes == {"PUT", "DELETE"}

\* the step in which a request of a route arrives as call c
ArriveStep(c) ==
    calls[c].pc = "none" /\ calls'[c].pc # "none" /\ calls'[c].op \in ChangeRoutes

\* user is a stored, active user who holds a token that verifies now
Principal(user) ==
    \E id \in Ids :
        /\ users[id] = user /\ user["isActive"]
        /\ issued[id] # <<>>
        /\ verifyToken(issued[id], JWT_SECRET, now).ok

\* user is the author of the post, a moderator or an admin
Entitled(post, user) ==
    \/ post["author"] = Oid(user["_id"])
    \/ user["role"] \in {"moderator", "admin"}

----------------------------------------------------------------------------
(* Properties of the user-management routes, under SpecUsers *)

\* the step is a user-management request with this header on user id
UserRequest(header, id) ==
    \/ DeleteUser(header, id)
    \/ DeactivateUser(header, id)
    \/ ActivateUser(header, id)
    \/ \E role \in Roles : ChangeRole(header, id, role)
    \/ \E body \in UserBodies : UpdateUser(header, id, body)

====
